---- MODULE Spec2Model ----
(***************************************************************************)
(* Model of src/main.py: the dataset construction pipeline                 *)
(*   main -> load_config -> process_dataset                                *)
(*        -> (download_and_extract_videos -> extract_frames_from_videos)   *)
(*        -> auto_label_images -> "Dataset construction complete."         *)
(* The filesystem is a set of existing directories and a set of files      *)
(* (directory, name).  A file name is a sequence of tokens whose last      *)
(* token is the extension, so that os.path.splitext drops the last token.  *)
(***************************************************************************)
EXTENDS Integers, Sequences, FiniteSets, TLC

\* ---------------------------------------------------------------- bounds
MaxFrames == 3
MaxStride == 2

\* ------------------------------------------------------------- universes
Paths == {"imgs", "out", "vid"}
InputTypes == {"video", "image", "audio"}
Missing == [present |-> FALSE]
Components == {"Acquisition", "Extractor", "AutoLabeler"}

VideoSections == {Missing} \cup
    { [present |-> TRUE, video_dir |-> d, frame_stride |-> s] :
        d \in Paths, s \in 1..MaxStride }
ImageSections == {Missing} \cup
    { [present |-> TRUE, image_dir |-> d] : d \in Paths }
Ontologies == {"valid", "invalid", "missing"}

Configs == [input_type : InputTypes, dataset_dir : Paths,
            video : VideoSections, image : ImageSections,
            ontology : Ontologies]

\* file names
KeepName == <<"keep", ".jpg">>
ZipName == <<"videos", ".zip">>
YamlName == <<"data", ".yaml">>
VideoNames == {<<"a", ".mov">>, <<"a", ".mp4">>}
VideoExtensions == {".mov", ".mp4"}

\* an archive maps each possible entry to its number of decodable frames,
\* or to -1 when the archive does not hold the entry
Archives == [VideoNames -> -1..MaxFrames]

VARIABLES pc, err, cfg, dirs, files, dirs0, files0, log, httpGets,
          videoLen, todo, saves, extractDir, labelCalls, writers, printed

vars == <<pc, err, cfg, dirs, files, dirs0, files0, log, httpGets,
          videoLen, todo, saves, extractDir, labelCalls, writers, printed>>

\* ------------------------------------------------------- pure functions
Basename(name) == name
Splitext(name) == SubSeq(name, 1, Len(name) - 1)
Extension(name) == name[Len(name)]

DigitChar(d) == <<"0", "1", "2", "3", "4", "5", "6", "7", "8", "9">>[d + 1]

RECURSIVE Digits(_)
Digits(i) == IF i < 10 THEN <<DigitChar(i)>>
             ELSE Digits(i \div 10) \o <<DigitChar(i % 10)>>

RECURSIVE ZeroPad(_, _)
ZeroPad(ds, w) == IF Len(ds) >= w THEN ds ELSE ZeroPad(<<"0">> \o ds, w)

\* "{:05d}".format(i)
Format05d(i) == ZeroPad(Digits(i), 5)

\* video_name + "-{:05d}.png", formatted with the sink's image_count
ImageName(video_name, image_count) ==
    video_name \o <<"-">> \o Format05d(image_count) \o <<".png">>

\* sv.get_video_frames_generator(source_path, stride): source positions of
\* the frames it yields for a video of n decodable frames, reading from pos
RECURSIVE FramesGeneratorEveryFrame(_, _, _)
FramesGeneratorEveryFrame(pos, n, stride) ==
    IF pos >= n THEN <<>>
    ELSE <<pos>> \o FramesGeneratorEveryFrame(pos + 1, n, stride)

RECURSIVE FramesGenerator(_, _, _)
FramesGenerator(pos, n, stride) ==
    IF pos >= n THEN <<>>
    ELSE <<pos>> \o FramesGenerator(pos + stride, n, stride)

\* the with-block of lines 42-44: one sink per video, image_count from 0,
\* incremented by each save_image
SinkSaves(video, n, stride) ==
    LET frames == FramesGenerator(0, n, stride)
    IN  [k \in 1..Len(frames) |->
            [video |-> video, pos |-> frames[k],
             name |-> ImageName(Splitext(Basename(video)), k - 1)]]

\* sv.list_files_with_extensions(directory, ["mov", "mp4"])
ListVideos(fs, d) ==
    { f.name : f \in { g \in fs : g.dir = d /\ Extension(g.name) \in VideoExtensions } }

Range(s) == { s[i] : i \in 1..Len(s) }

\* os.makedirs(d, exist_ok=True)
MakeDirs(ds, d) == ds \cup {d}

AddWriter(w, d, c) == [w EXCEPT ![d] = @ \cup {c}]

\* ----------------------------------------------------------------- Init
Init ==
    /\ pc = "start"
    /\ err = "none"
    /\ cfg \in Configs
    /\ dirs \in SUBSET Paths
    /\ files \in { {}, { [dir |-> d, name |-> KeepName] : d \in dirs } }
    /\ dirs0 = dirs
    /\ files0 = files
    /\ log = <<>>
    /\ httpGets = 0
    /\ videoLen = [v \in VideoNames |-> -1]
    /\ todo = {}
    /\ saves = <<>>
    /\ extractDir = "none"
    /\ labelCalls = <<>>
    /\ writers = [d \in Paths |-> {}]
    /\ printed = FALSE

Fail(e) == pc' = "failed" /\ err' = e

\* ------------------------------------------------------------- actions
\* main line 93: load_config succeeds
LoadConfig ==
    /\ pc = "start"
    /\ pc' = "loaded"
    /\ log' = Append(log, "load")
    /\ UNCHANGED <<err, cfg, dirs, files, dirs0, files0, httpGets, videoLen,
                   todo, saves, extractDir, labelCalls, writers, printed>>

\* main line 93: the file is unreadable or malformed
LoadConfigFail ==
    /\ pc = "start"
    /\ Fail("ParseError")
    /\ log' = Append(log, "load")
    /\ UNCHANGED <<cfg, dirs, files, dirs0, files0, httpGets, videoLen,
                   todo, saves, extractDir, labelCalls, writers, printed>>

\* process_dataset lines 57-71, input_type "video": the video section is
\* read (KeyError when absent, line 64), then both directories are created
RouteVideoNoSection ==
    /\ pc = "loaded"
    /\ cfg.input_type = "video"
    /\ ~cfg.video.present
    /\ Fail("KeyError")
    /\ log' = Append(log, "route")
    /\ UNCHANGED <<cfg, dirs, files, dirs0, files0, httpGets, videoLen,
                   todo, saves, extractDir, labelCalls, writers, printed>>

RouteVideoOneDir ==
    /\ pc = "loaded"
    /\ cfg.input_type = "video"
    /\ cfg.video.present
    /\ dirs' = MakeDirs(dirs, cfg.video.video_dir)
    /\ pc' = "download"
    /\ log' = log \o <<"route", "mkdirs">>
    /\ UNCHANGED <<err, cfg, files, dirs0, files0, httpGets, videoLen,
                   todo, saves, extractDir, labelCalls, writers, printed>>

\* lines 60-71: both directories are created, in this order
RouteVideo ==
    /\ pc = "loaded"
    /\ cfg.input_type = "video"
    /\ cfg.video.present
    /\ dirs' = MakeDirs(MakeDirs(dirs, cfg.video.video_dir), cfg.dataset_dir)
    /\ pc' = "download"
    /\ log' = log \o <<"route", "mkdirs">>
    /\ UNCHANGED <<err, cfg, files, dirs0, files0, httpGets, videoLen,
                   todo, saves, extractDir, labelCalls, writers, printed>>

DownloadNetworkRetry ==
    /\ pc = "download"
    /\ httpGets < 2
    /\ httpGets' = httpGets + 1
    /\ log' = Append(log, "download")
    /\ UNCHANGED <<pc, err, cfg, dirs, files, dirs0, files0, videoLen,
                   todo, saves, extractDir, labelCalls, writers, printed>>

\* download_and_extract_videos lines 19-31: requests.get raises
DownloadNetworkFail ==
    /\ pc = "download"
    /\ httpGets' = httpGets + 1
    /\ Fail("ConnectionError")
    /\ log' = Append(log, "download")
    /\ UNCHANGED <<cfg, dirs, files, dirs0, files0, videoLen,
                   todo, saves, extractDir, labelCalls, writers, printed>>

\* lines 23-28: the body is written to videos.zip, which is not an archive
DownloadBadZip ==
    /\ pc = "download"
    /\ httpGets' = httpGets + 1
    /\ files' = files \cup {[dir |-> cfg.video.video_dir, name |-> ZipName]}
    /\ writers' = AddWriter(writers, cfg.video.video_dir, "Acquisition")
    /\ Fail("BadZipFile")
    /\ log' = Append(log, "download")
    /\ UNCHANGED <<cfg, dirs, dirs0, files0, videoLen,
                   todo, saves, extractDir, labelCalls, printed>>

\* lines 23-31: the archive is written and every entry extracted
Download ==
    /\ pc = "download"
    /\ \E archive \in Archives :
          /\ videoLen' = archive
          /\ files' = files
                \cup {[dir |-> cfg.video.video_dir, name |-> ZipName]}
                \cup { [dir |-> cfg.video.video_dir, name |-> v] :
                        v \in { w \in VideoNames : archive[w] >= 0 } }
    /\ httpGets' = httpGets + 1
    /\ writers' = AddWriter(writers, cfg.video.video_dir, "Acquisition")
    /\ pc' = "extract"
    /\ log' = Append(log, "download")
    /\ UNCHANGED <<err, cfg, dirs, dirs0, files0,
                   todo, saves, extractDir, labelCalls, printed>>

\* extract_frames_from_videos line 36
ExtractList ==
    /\ pc = "extract"
    /\ todo' = ListVideos(files, cfg.video.video_dir)
    /\ extractDir' = cfg.dataset_dir
    /\ pc' = "frames"
    /\ log' = Append(log, "extract")
    /\ UNCHANGED <<err, cfg, dirs, files, dirs0, files0, httpGets, videoLen,
                   saves, labelCalls, writers, printed>>

\* lines 38-44, one iteration of the loop over video_paths
ExtractVideo ==
    /\ pc = "frames"
    /\ \E v \in todo :
          LET written == SinkSaves(v, videoLen[v], cfg.video.frame_stride)
          IN  /\ saves' = saves \o written
              /\ files' = files \cup
                    { [dir |-> extractDir, name |-> s.name] : s \in Range(written) }
              /\ writers' = IF written = <<>> THEN writers
                            ELSE AddWriter(writers, extractDir, "Extractor")
              /\ todo' = todo \ {v}
    /\ UNCHANGED <<pc, err, cfg, dirs, dirs0, files0, log, httpGets, videoLen,
                   extractDir, labelCalls, printed>>

\* line 43: the video cannot be opened
ExtractOpenFail ==
    /\ pc = "frames"
    /\ todo # {}
    /\ Fail("DecodeError")
    /\ UNCHANGED <<cfg, dirs, files, dirs0, files0, log, httpGets, videoLen,
                   todo, saves, extractDir, labelCalls, writers, printed>>

\* line 38: video_paths is exhausted, process_dataset returns
ExtractDone ==
    /\ pc = "frames"
    /\ todo = {}
    /\ pc' = "routed"
    /\ UNCHANGED <<err, cfg, dirs, files, dirs0, files0, log, httpGets,
                   videoLen, todo, saves, extractDir, labelCalls, writers,
                   printed>>

\* process_dataset lines 76-80: the image section is absent
RouteImageNoSection ==
    /\ pc = "loaded"
    /\ cfg.input_type = "image"
    /\ ~cfg.image.present
    /\ Fail("KeyError")
    /\ log' = Append(log, "route")
    /\ UNCHANGED <<cfg, dirs, files, dirs0, files0, httpGets, videoLen,
                   todo, saves, extractDir, labelCalls, writers, printed>>

RouteImageNotFoundMkdirFirst ==
    /\ pc = "loaded"
    /\ cfg.input_type = "image"
    /\ cfg.image.present
    /\ cfg.image.image_dir \notin dirs
    /\ dirs' = MakeDirs(dirs, cfg.dataset_dir)
    /\ Fail("FileNotFoundError")
    /\ log' = log \o <<"route", "mkdirs", "exists">>
    /\ UNCHANGED <<cfg, files, dirs0, files0, httpGets, videoLen,
                   todo, saves, extractDir, labelCalls, writers, printed>>

\* lines 81-82: os.path.exists(image_dir) is false
RouteImageNotFound ==
    /\ pc = "loaded"
    /\ cfg.input_type = "image"
    /\ cfg.image.present
    /\ cfg.image.image_dir \notin dirs
    /\ Fail("FileNotFoundError")
    /\ log' = log \o <<"route", "exists">>
    /\ UNCHANGED <<cfg, dirs, files, dirs0, files0, httpGets, videoLen,
                   todo, saves, extractDir, labelCalls, writers, printed>>

\* lines 76-84: the check passes, the dataset directory is created
RouteImage ==
    /\ pc = "loaded"
    /\ cfg.input_type = "image"
    /\ cfg.image.present
    /\ cfg.image.image_dir \in dirs
    /\ dirs' = MakeDirs(dirs, cfg.dataset_dir)
    /\ pc' = "routed"
    /\ log' = log \o <<"route", "exists", "mkdirs">>
    /\ UNCHANGED <<err, cfg, files, dirs0, files0, httpGets, videoLen,
                   todo, saves, extractDir, labelCalls, writers, printed>>

RouteInvalidAfterMkdir ==
    /\ pc = "loaded"
    /\ cfg.input_type \notin {"video", "image"}
    /\ dirs' = MakeDirs(dirs, cfg.dataset_dir)
    /\ Fail("ValueError")
    /\ log' = Append(log, "route")
    /\ UNCHANGED <<cfg, files, dirs0, files0, httpGets, videoLen,
                   todo, saves, extractDir, labelCalls, writers, printed>>

\* lines 86-87
RouteInvalid ==
    /\ pc = "loaded"
    /\ cfg.input_type \notin {"video", "image"}
    /\ Fail("ValueError")
    /\ log' = Append(log, "route")
    /\ UNCHANGED <<cfg, dirs, files, dirs0, files0, httpGets, videoLen,
                   todo, saves, extractDir, labelCalls, writers, printed>>

\* main line 102: config['ontology'] is absent
ReadOntologyMissing ==
    /\ pc = "routed"
    /\ cfg.ontology = "missing"
    /\ Fail("KeyError")
    /\ UNCHANGED <<cfg, dirs, files, dirs0, files0, log, httpGets, videoLen,
                   todo, saves, extractDir, labelCalls, writers, printed>>

\* main line 105: config['data']['image'] is absent
ReadImageDirMissing ==
    /\ pc = "routed"
    /\ cfg.ontology # "missing"
    /\ ~cfg.image.present
    /\ Fail("KeyError")
    /\ UNCHANGED <<cfg, dirs, files, dirs0, files0, log, httpGets, videoLen,
                   todo, saves, extractDir, labelCalls, writers, printed>>

\* main lines 102-109: the arguments of auto_label_images are read
PrepareLabel ==
    /\ pc = "routed"
    /\ cfg.ontology # "missing"
    /\ cfg.image.present
    /\ pc' = "label"
    /\ UNCHANGED <<err, cfg, dirs, files, dirs0, files0, log, httpGets,
                   videoLen, todo, saves, extractDir, labelCalls, writers,
                   printed>>

\* auto_label_images lines 49-50: the ontology or the model cannot be built
AutoLabelBadOntology ==
    /\ pc = "label"
    /\ cfg.ontology = "invalid"
    /\ Fail("OntologyError")
    /\ UNCHANGED <<cfg, dirs, files, dirs0, files0, log, httpGets, videoLen,
                   todo, saves, extractDir, labelCalls, writers, printed>>

\* the (input_folder, output_folder) main hands to the labeler, lines 105-109
LabelFoldersSwapped == [input_folder |-> cfg.dataset_dir,
                        output_folder |-> cfg.image.image_dir]
LabelFolders == [input_folder |-> cfg.image.image_dir,
                 output_folder |-> cfg.dataset_dir]

\* line 53: base_model.label raises
AutoLabelOracleFail ==
    /\ pc = "label"
    /\ cfg.ontology = "valid"
    /\ labelCalls' = Append(labelCalls, LabelFolders)
    /\ Fail("OracleError")
    /\ log' = Append(log, "label")
    /\ UNCHANGED <<cfg, dirs, files, dirs0, files0, httpGets, videoLen,
                   todo, saves, extractDir, writers, printed>>

\* line 53: base_model.label writes the annotations into output_folder
AutoLabel ==
    /\ pc = "label"
    /\ cfg.ontology = "valid"
    /\ labelCalls' = Append(labelCalls, LabelFolders)
    /\ dirs' = MakeDirs(dirs, LabelFolders.output_folder)
    /\ files' = files \cup
          {[dir |-> LabelFolders.output_folder, name |-> YamlName]}
    /\ writers' = AddWriter(writers, LabelFolders.output_folder, "AutoLabeler")
    /\ pc' = "labeled"
    /\ log' = Append(log, "label")
    /\ UNCHANGED <<err, cfg, dirs0, files0, httpGets, videoLen,
                   todo, saves, extractDir, printed>>

\* main line 111
PrintComplete ==
    /\ pc = "labeled"
    /\ printed' = TRUE
    /\ pc' = "done"
    /\ log' = Append(log, "print")
    /\ UNCHANGED <<err, cfg, dirs, files, dirs0, files0, httpGets, videoLen,
                   todo, saves, extractDir, labelCalls, writers>>

Next ==
    \/ LoadConfig
    \/ LoadConfigFail
    \/ RouteVideoNoSection
    \/ RouteVideo
    \/ DownloadNetworkFail
    \/ DownloadBadZip
    \/ Download
    \/ ExtractList
    \/ ExtractVideo
    \/ ExtractOpenFail
    \/ ExtractDone
    \/ RouteImageNoSection
    \/ RouteImageNotFound
    \/ RouteImage
    \/ RouteInvalid
    \/ ReadOntologyMissing
    \/ ReadImageDirMissing
    \/ PrepareLabel
    \/ AutoLabelBadOntology
    \/ AutoLabelOracleFail
    \/ AutoLabel
    \/ PrintComplete

Spec == Init /\ [][Next]_vars

\* ------------------------------------------------------------ properties
Steps == Range(log)
Ended == pc \in {"done", "failed"}

\* C1: for an input_type other than "video" and "image", once
\* process_dataset has been called the run has failed with ValueError, the
\* directories and files are those from before the call, no download was
\* made, no frame was written and the labeler was not invoked.
C1_InvalidTypeFailsClean ==
    (cfg.input_type \notin {"video", "image"} /\ "route" \in Steps) =>
        /\ pc = "failed"
        /\ err = "ValueError"
        /\ dirs = dirs0
        /\ files = files0
        /\ httpGets = 0
        /\ saves = <<>>
        /\ labelCalls = <<>>

C1_Witness ==
    /\ cfg.input_type = "audio"
    /\ pc = "failed"
    /\ err = "ValueError"
    /\ cfg.dataset_dir \notin dirs0
    /\ files0 # {}

\* C2: in image mode the dataset directory is created only after the
\* existence check passed: when the configured image directory does not
\* exist, the call fails with FileNotFoundError, a dataset directory that
\* was absent is still absent, and the labeler is never invoked.
C2_ImageDirMissingFails ==
    (cfg.input_type = "image" /\ cfg.image.present /\ "route" \in Steps) =>
        /\ (cfg.image.image_dir \notin dirs0 =>
               /\ pc = "failed"
               /\ err = "FileNotFoundError"
               /\ (cfg.dataset_dir \notin dirs0 => cfg.dataset_dir \notin dirs)
               /\ labelCalls = <<>>)
        /\ (dirs # dirs0 => cfg.image.image_dir \in dirs0)
        /\ \A i \in 1..Len(log), j \in 1..Len(log) :
               (log[i] = "mkdirs" /\ log[j] = "exists") => j < i

C2_Witness ==
    /\ cfg.input_type = "image"
    /\ cfg.image.present
    /\ cfg.image.image_dir \notin dirs0
    /\ cfg.dataset_dir \notin dirs0
    /\ dirs0 # {}
    /\ pc = "failed"
    /\ err = "FileNotFoundError"

\* C3: in video mode, whatever directories existed before, once the
\* directories have been created the video directory and the dataset
\* directory both exist, in the rest of the run too (normal return, failed
\* acquisition, failed extraction); the creation removes no directory and
\* changes no file.
C3_VideoDirsExist ==
    (cfg.input_type = "video" /\ cfg.video.present /\ "mkdirs" \in Steps) =>
        /\ cfg.video.video_dir \in dirs
        /\ cfg.dataset_dir \in dirs
        /\ dirs0 \subseteq dirs
        /\ files0 \subseteq files
        /\ (pc = "download" => files = files0)

C3_Witness ==
    /\ cfg.input_type = "video"
    /\ cfg.video.present
    /\ cfg.video.video_dir # cfg.dataset_dir
    /\ cfg.video.video_dir \in dirs0
    /\ cfg.dataset_dir \notin dirs0
    /\ files0 # {}
    /\ pc = "failed"
    /\ err = "DecodeError"

\* the steps of a run, in the order the code takes them
StepOrder(input_type) ==
    IF input_type = "video"
    THEN <<"load", "route", "mkdirs", "download", "extract", "label", "print">>
    ELSE IF input_type = "image"
    THEN <<"load", "route", "exists", "mkdirs", "label", "print">>
    ELSE <<"load", "route">>

IsPrefix(s, t) == Len(s) <= Len(t) /\ SubSeq(t, 1, Len(s)) = s

\* C4: the steps of a run are taken in the fixed order, each at most once
\* (at most one HTTP GET, at most one label call); the completion message is
\* printed only after every step succeeded; after a failure nothing runs.
C4_FixedOrderFailFast ==
    /\ [](/\ IsPrefix(log, StepOrder(cfg.input_type))
          /\ httpGets <= 1
          /\ Len(labelCalls) <= 1
          /\ (err # "none" <=> pc = "failed")
          /\ (printed => err = "none" /\ log = StepOrder(cfg.input_type))
          /\ (err # "none" => ~printed))
    /\ [][err = "none"]_vars

C4_Witness ==
    /\ cfg.input_type = "video"
    /\ pc = "failed"
    /\ err = "OracleError"
    /\ saves # <<>>
    /\ ~printed

\* C5: an image-mode run with an existing image directory and a valid
\* ontology ends with the dataset directory existing and exactly one label
\* call, from the image directory into the dataset directory; until the
\* labeler is called no file has been added, removed or moved.
C5_ImageRunLabelsOnce ==
    (/\ cfg.input_type = "image"
     /\ cfg.image.present
     /\ cfg.image.image_dir \in dirs0
     /\ cfg.ontology = "valid"
     /\ "route" \in Steps) =>
        /\ (Ended =>
               /\ cfg.dataset_dir \in dirs
               /\ labelCalls = << [input_folder |-> cfg.image.image_dir,
                                   output_folder |-> cfg.dataset_dir] >>)
        /\ (labelCalls = <<>> => files = files0)
        /\ httpGets = 0
        /\ saves = <<>>

C5_Witness ==
    /\ cfg.input_type = "image"
    /\ cfg.image.present
    /\ cfg.image.image_dir # cfg.dataset_dir
    /\ cfg.dataset_dir \notin dirs0
    /\ files0 # {}
    /\ cfg.ontology = "valid"
    /\ pc = "done"

DigitValue(c) == CHOOSE d \in 0..9 : DigitChar(d) = c

RECURSIVE DecimalValue(_)
DecimalValue(ds) ==
    IF ds = <<>> THEN 0
    ELSE 10 * DecimalValue(SubSeq(ds, 1, Len(ds) - 1)) + DigitValue(ds[Len(ds)])

SavesOf(v) == SelectSeq(saves, LAMBDA r : r.video = v)
Extracted(v) ==
    /\ "extract" \in Steps
    /\ pc # "extract"
    /\ videoLen[v] >= 0
    /\ v \notin todo

\* C6: a video of n frames extracted with stride s yields ceil(n / s) saved
\* frames, the k-th from source position (k-1)*s and named
\* <basename>-<k-1 as five zero-padded digits>.png
C6_FrameCountAndNames ==
    \A v \in VideoNames :
        Extracted(v) =>
            LET n == videoLen[v]
                s == cfg.video.frame_stride
                S == SavesOf(v)
            IN  /\ Len(S) = (n + s - 1) \div s
                /\ \A k \in 1..Len(S) :
                      /\ S[k].pos = (k - 1) * s
                      /\ S[k].pos < n
                      /\ Len(S[k].name) = 8
                      /\ S[k].name[1] = v[1]
                      /\ S[k].name[2] = "-"
                      /\ DecimalValue(SubSeq(S[k].name, 3, 7)) = k - 1
                      /\ S[k].name[8] = ".png"
                      /\ [dir |-> cfg.dataset_dir, name |-> S[k].name] \in files

C6_Witness ==
    \E v \in VideoNames :
        /\ Extracted(v)
        /\ videoLen[v] = MaxFrames
        /\ cfg.video.frame_stride = MaxStride
        /\ Len(SavesOf(v)) >= 2
        /\ pc = "routed"

\* C7: a video-mode configuration without image section is complete: its
\* run never fails with a key-not-found error.
C7_VideoConfigComplete ==
    (/\ cfg.input_type = "video"
     /\ cfg.video.present
     /\ ~cfg.image.present
     /\ cfg.ontology = "valid") => err # "KeyError"

\* C8: no directory receives writes from two different components.
C8_SingleWriter ==
    \A d \in Paths : Cardinality(writers[d]) <= 1

\* C9: in a video-mode run that reaches the labeler, the input folder of the
\* label call is the directory the frames were extracted into, and holds
\* every frame saved in the run.
C9_LabelReadsExtractedFrames ==
    (cfg.input_type = "video" /\ labelCalls # <<>>) =>
        /\ labelCalls[1].input_folder = extractDir
        /\ \A i \in 1..Len(saves) :
              [dir |-> labelCalls[1].input_folder, name |-> saves[i].name] \in files

\* C10: within one extraction no two saved frames get the same file name,
\* and the image files added to the output directory are as many as the
\* frames saved.
C10_NoNameCollision ==
    /\ \A i \in 1..Len(saves), j \in 1..Len(saves) :
          i # j => saves[i].name # saves[j].name
    /\ ("extract" \in Steps /\ pc # "extract") =>
          Cardinality({ f \in files \ files0 :
                          f.dir = extractDir /\ Extension(f.name) = ".png" })
            = Len(saves)

====
